---- MODULE Spec2Model ----
(***************************************************************************)
(* Model of the Kiro agent abstraction of beast_ai_dev_agent:              *)
(*   common/models.py          data model, KiroAgentInterface, factory,    *)
(*                             stateless-constraint validator              *)
(*   cloudrun/agent.py         CloudRunKiroAgent (FastAPI adapter)         *)
(*   gke/agent.py              GKEKiroAgent (subclass of CloudRunKiroAgent)*)
(*   cloud_functions/agent.py  CloudFunctionsKiroAgent                     *)
(*                                                                         *)
(* A Python call is modelled by its outcome: Return(v) or Raise(exc, msg). *)
(* A dict is a function with a set of strings as domain; {} is EmptyDict.  *)
(* Durations are natural numbers (time units), datetime.utcnow() is Now.   *)
(***************************************************************************)
EXTENDS Integers, Sequences, FiniteSets, TLC

VARIABLES agent,    \* the agent instance: class and the fields set by __init__
          ret,      \* outcome of the last operation called, with its inputs
          hist,     \* history: how many calls of each kind have been made
          host,     \* how concurrent calls are scheduled on the instance
          pc,       \* position of each concurrent handler
          tmp,      \* value each concurrent handler last read from a counter
          running   \* handler the event loop is running, or NoHandler

vars == <<agent, ret, hist, host, pc, tmp, running>>

----------------------------------------------------------------------------
(* Bounds *)

MaxCalls == 3       \* counter-mutating calls made on one instance
MaxSample == 1      \* largest duration of an analysis step
NumHandlers == 2    \* concurrent handlers on one instance
MaxOut == 2         \* longest stdout of a control-plane query

----------------------------------------------------------------------------
(* Python values *)

Return(v) == [kind |-> "return", value |-> v]

Raise(exc, msg) == [kind |-> "raise", exc |-> exc, msg |-> msg]

EmptyDict == [k \in {} |-> 0]

Now == "utcnow"

\* A dataclass without defaults: the generated __init__ takes every field
\* as a required argument and raises TypeError otherwise.
dataclass(fields, kwargs) ==
    IF DOMAIN kwargs = fields
    THEN Return(kwargs)
    ELSE Raise("TypeError", "missing or unexpected arguments")

KiroRequestFields == {"data", "headers", "method", "path", "query_params", "timestamp"}

KiroRequest(kwargs) == dataclass(KiroRequestFields, kwargs)

KiroResponseFields == {"status_code", "data", "headers", "timestamp"}

KiroResponse(kwargs) == dataclass(KiroResponseFields, kwargs)

KiroMetricsFields == {"platform", "instance_id", "timestamp", "request_count",
                      "error_count", "avg_response_time", "memory_usage", "cpu_usage"}

KiroMetrics(kwargs) == dataclass(KiroMetricsFields, kwargs)

----------------------------------------------------------------------------
(* Construction *)

Classes == {"CloudRunKiroAgent", "GKEKiroAgent", "CloudFunctionsKiroAgent"}

\* KiroAgentInterface.__init__
KiroAgentInterface_init(cls, platform) ==
    [cls |-> cls, platform |-> platform, request_count |-> 0,
     error_count |-> 0, response_times |-> <<>>]

CloudRunKiroAgent_init(cls) == KiroAgentInterface_init(cls, "cloudrun")

GKEKiroAgent_init(cls) == [CloudRunKiroAgent_init(cls) EXCEPT !.platform = "gke"]

CloudFunctionsKiroAgent_init(cls) == KiroAgentInterface_init(cls, "cloud_functions")

Construct(cls) ==
    CASE cls = "CloudRunKiroAgent" -> CloudRunKiroAgent_init(cls)
      [] cls = "GKEKiroAgent" -> GKEKiroAgent_init(cls)
      [] cls = "CloudFunctionsKiroAgent" -> CloudFunctionsKiroAgent_init(cls)

----------------------------------------------------------------------------
(* Analysis *)

\* KiroAgentInterface._perform_analysis is the pluggable routine: the stub
\* returns a fixed payload, an overriding routine may raise an Exception.
AnalysisPayload == [status |-> "analyzed", confidence |-> "0.95",
                    categories |-> <<"example_category">>,
                    insights |-> <<"Example insight from analysis">>]

ErrMsgs == {"boom", "bad input"}

AnalysisOutcomes == {Return(AnalysisPayload)} \cup {Raise("Exception", m) : m \in ErrMsgs}

\* len(str(data)) of the dicts of Datas: "{}" and "{'x': 1}".
data_size(data) == IF DOMAIN data = {} THEN 2 ELSE 8

\* KiroAgentInterface.analyze_data: wraps the routine's payload, re-raises
\* its failure after logging it.
analyze_data(self, data, analysis) ==
    IF analysis.kind = "return"
    THEN Return([analysis_id |-> "kiro_" \o self.platform,
                 platform |-> self.platform,
                 timestamp |-> Now,
                 input_data |-> data,
                 analysis_result |-> analysis.value,
                 metadata |-> [processing_time |-> "0.1",
                               data_size |-> data_size(data)]])
    ELSE analysis

----------------------------------------------------------------------------
(* process_request *)

\* CloudRunKiroAgent.process_request, inherited unchanged by GKEKiroAgent.
\* The result is the instance after the call and the call's outcome.
CloudRun_except_reraise(self, e) ==
    [self |-> [self EXCEPT !.error_count = @ + 1], result |-> e]

CloudRun_except(self, e) ==
    [self |-> [self EXCEPT !.error_count = @ + 1],
     result |-> KiroResponse([data |-> [error |-> e.msg, platform |-> "cloudrun"],
                              status_code |-> 500,
                              headers |-> ("X-Platform" :> "cloudrun"),
                              timestamp |-> Now])]

CloudRun_process_request_sample_first(self, request, analysis, response_time) ==
    LET s1 == [self EXCEPT !.request_count = @ + 1,
                           !.response_times = Append(@, response_time)]
        result == analyze_data(s1, request.data, analysis)
        response == KiroResponse([data |-> result.value,
                                  status_code |-> 200,
                                  headers |-> ("X-Platform" :> "cloudrun"
                                               @@ "X-Response-Time" :> ToString(response_time)),
                                  timestamp |-> Now])
    IN  IF result.kind = "raise" THEN CloudRun_except(s1, result)
        ELSE IF response.kind = "raise" THEN CloudRun_except(s1, response)
        ELSE [self |-> s1, result |-> response]

CloudRun_process_request(self, request, analysis, response_time) ==
    LET s1 == [self EXCEPT !.request_count = @ + 1]
        result == analyze_data(s1, request.data, analysis)
        s2 == [s1 EXCEPT !.response_times = Append(@, response_time)]
        response == KiroResponse([data |-> result.value,
                                  status_code |-> 200,
                                  headers |-> ("X-Platform" :> "cloudrun"
                                               @@ "X-Response-Time" :> ToString(response_time)),
                                  timestamp |-> Now])
    IN  IF result.kind = "raise" THEN CloudRun_except(s1, result)
        ELSE IF response.kind = "raise" THEN CloudRun_except(s2, response)
        ELSE [self |-> s2, result |-> response]

\* CloudFunctionsKiroAgent.process_request
CloudFunctions_except_uncounted(self, e) ==
    [self |-> self,
     result |-> KiroResponse([data |-> [error |-> e.msg],
                              status_code |-> 500,
                              headers |-> ("X-Platform" :> "cloud_functions"),
                              timestamp |-> Now])]

CloudFunctions_except(self, e) ==
    [self |-> [self EXCEPT !.error_count = @ + 1],
     result |-> KiroResponse([data |-> [error |-> e.msg],
                              status_code |-> 500,
                              headers |-> ("X-Platform" :> "cloud_functions"),
                              timestamp |-> Now])]

CloudFunctions_process_request(self, request, analysis, response_time) ==
    LET s1 == [self EXCEPT !.request_count = @ + 1]
        result == analyze_data(s1, request.data, analysis)
        s2 == [s1 EXCEPT !.response_times = Append(@, response_time)]
        response == KiroResponse([data |-> result.value,
                                  status_code |-> 200,
                                  headers |-> ("X-Platform" :> "cloud_functions"),
                                  timestamp |-> Now])
    IN  IF result.kind = "raise" THEN CloudFunctions_except(s1, result)
        ELSE IF response.kind = "raise" THEN CloudFunctions_except(s2, response)
        ELSE [self |-> s2, result |-> response]

\* Method resolution: GKEKiroAgent -> CloudRunKiroAgent -> KiroAgentInterface.
process_request(self, request, analysis, response_time) ==
    IF self.cls = "CloudFunctionsKiroAgent"
    THEN CloudFunctions_process_request(self, request, analysis, response_time)
    ELSE CloudRun_process_request(self, request, analysis, response_time)

----------------------------------------------------------------------------
(* Inputs *)

Samples == 0..MaxSample

Datas == {EmptyDict, [x |-> 1]}

Methods == {"GET", "POST", "PUT", "DELETE", "PATCH", "get", ""}

Requests == {[data |-> d, headers |-> ("content-type" :> "application/json"),
              method |-> m, path |-> "/analyze", query_params |-> EmptyDict,
              timestamp |-> Now] : d \in Datas, m \in Methods}

----------------------------------------------------------------------------
(* The serving instance: sequential calls *)

NoRet == [op |-> "none"]

NoHist == [ok |-> 0, failed |-> 0, error_responses |-> 0, success_responses |-> 0]

Calls == hist.ok + hist.failed + hist.error_responses + hist.success_responses

\* No concurrent handler exists.
Idle == /\ host = "none"
        /\ pc = <<>>
        /\ tmp = <<>>
        /\ running = 0

Init == /\ \E cls \in Classes : agent = Construct(cls)
        /\ ret = NoRet
        /\ hist = NoHist
        /\ Idle

ProcessRequest ==
    /\ Calls < MaxCalls
    /\ \E request \in Requests, analysis \in AnalysisOutcomes, response_time \in Samples :
         LET r == process_request(agent, request, analysis, response_time)
         IN  /\ agent' = r.self
             /\ ret' = [op |-> "process_request", analysis |-> analysis, call |-> r.result]
             /\ hist' = IF analysis.kind = "return"
                        THEN [hist EXCEPT !.ok = @ + 1]
                        ELSE [hist EXCEPT !.failed = @ + 1]
    /\ UNCHANGED <<host, pc, tmp, running>>

----------------------------------------------------------------------------
(* Envelope builders of KiroAgentInterface *)

create_error_response_counting_request(self, error_message, status_code) ==
    [self |-> [self EXCEPT !.error_count = @ + 1, !.request_count = @ + 1],
     result |-> KiroResponse([status_code |-> status_code,
                              data |-> [status |-> "error", message |-> error_message,
                                        platform |-> self.platform, timestamp |-> Now],
                              headers |-> ("Content-Type" :> "application/json"),
                              timestamp |-> Now])]

create_error_response(self, error_message, status_code) ==
    [self |-> [self EXCEPT !.error_count = @ + 1],
     result |-> KiroResponse([status_code |-> status_code,
                              data |-> [status |-> "error", message |-> error_message,
                                        platform |-> self.platform, timestamp |-> Now],
                              headers |-> ("Content-Type" :> "application/json"),
                              timestamp |-> Now])]

create_success_response_uncounted(self, data, status_code) ==
    [self |-> self,
     result |-> KiroResponse([status_code |-> status_code,
                              data |-> [status |-> "success", platform |-> self.platform,
                                        timestamp |-> Now, result |-> data],
                              headers |-> ("Content-Type" :> "application/json"),
                              timestamp |-> Now])]

create_success_response(self, data, status_code) ==
    [self |-> [self EXCEPT !.request_count = @ + 1],
     result |-> KiroResponse([status_code |-> status_code,
                              data |-> [status |-> "success", platform |-> self.platform,
                                        timestamp |-> Now, result |-> data],
                              headers |-> ("Content-Type" :> "application/json"),
                              timestamp |-> Now])]

CreateErrorResponse ==
    /\ Calls < MaxCalls
    /\ \E error_message \in ErrMsgs, status_code \in {400, 500} :
         LET r == create_error_response(agent, error_message, status_code)
         IN  /\ agent' = r.self
             /\ ret' = [op |-> "create_error_response", call |-> r.result]
    /\ hist' = [hist EXCEPT !.error_responses = @ + 1]
    /\ UNCHANGED <<host, pc, tmp, running>>

CreateSuccessResponse ==
    /\ Calls < MaxCalls
    /\ \E data \in Datas, status_code \in {200, 201} :
         LET r == create_success_response(agent, data, status_code)
         IN  /\ agent' = r.self
             /\ ret' = [op |-> "create_success_response", call |-> r.result]
    /\ hist' = [hist EXCEPT !.success_responses = @ + 1]
    /\ UNCHANGED <<host, pc, tmp, running>>

----------------------------------------------------------------------------
(* get_metrics *)

RECURSIVE sum(_)
sum(seq) == IF seq = <<>> THEN 0 ELSE Head(seq) + sum(Tail(seq))

\* A float quotient, kept exact as numerator and denominator.
Quotient(n, d) == [num |-> n, den |-> d]

Zero == Quotient(0, 1)

\* psutil readings in _get_memory_usage / _get_cpu_usage; 0 also stands for
\* the ImportError fallback.
Usages == {0, 1}

CloudRun_get_metrics(self, memory_usage, cpu_usage) ==
    LET avg_response_time == IF self.response_times # <<>>
                             THEN Quotient(sum(self.response_times), Len(self.response_times))
                             ELSE Zero
    IN  KiroMetrics([platform |-> "cloudrun",
                     request_count |-> self.request_count,
                     error_count |-> self.error_count,
                     avg_response_time |-> avg_response_time,
                     memory_usage |-> memory_usage,
                     cpu_usage |-> cpu_usage])

CloudFunctions_get_metrics(self) ==
    KiroMetrics([platform |-> "cloud_functions",
                 request_count |-> self.request_count,
                 error_count |-> self.error_count,
                 avg_response_time |-> Zero,
                 memory_usage |-> 0,
                 cpu_usage |-> 0])

get_metrics(self, memory_usage, cpu_usage) ==
    IF self.cls = "CloudFunctionsKiroAgent"
    THEN CloudFunctions_get_metrics(self)
    ELSE CloudRun_get_metrics(self, memory_usage, cpu_usage)

GetMetrics ==
    /\ \E memory_usage \in Usages, cpu_usage \in Usages :
         ret' = [op |-> "get_metrics", call |-> get_metrics(agent, memory_usage, cpu_usage)]
    /\ UNCHANGED <<agent, hist, host, pc, tmp, running>>

----------------------------------------------------------------------------
(* HTTP adapters *)

\* starlette JSONResponse as constructed in cloudrun/agent.py: the content,
\* the status code and the headers passed to it (none when omitted).
JSONResponse(content, status_code, headers) ==
    [content |-> content, status_code |-> status_code, headers |-> headers]

\* The native FastAPI request of POST /analyze: request.json() either
\* yields the decoded body or raises.
Bodies == {Return(d) : d \in Datas} \cup {Raise("JSONDecodeError", "Expecting value")}

NativeRequests == [body : Bodies,
                   headers : {("content-type" :> "application/json")},
                   method : {"POST"},
                   path : {"/analyze"},
                   query_params : {EmptyDict}]

\* CloudRunKiroAgent._analyze_handler. kiro_response is the Response that
\* process_request handed to the handler, when the handler got that far.
analyze_handler_except(self, e) ==
    [self |-> self,
     processed |-> FALSE,
     reply |-> JSONResponse([error |-> e.msg, platform |-> "cloudrun"], 500, EmptyDict)]

analyze_handler(self, request, analysis, response_time) ==
    LET kiro_request == KiroRequest([data |-> request.body.value,
                                     headers |-> request.headers,
                                     method |-> request.method,
                                     path |-> request.path,
                                     query_params |-> request.query_params,
                                     timestamp |-> Now])
        r == process_request(self, kiro_request.value, analysis, response_time)
        kiro_response == r.result
    IN  IF request.body.kind = "raise" THEN analyze_handler_except(self, request.body)
        ELSE IF kiro_request.kind = "raise" THEN analyze_handler_except(self, kiro_request)
        ELSE IF kiro_response.kind = "raise"
             THEN analyze_handler_except(r.self, kiro_response)
        ELSE [self |-> r.self,
              processed |-> TRUE,
              kiro_response |-> kiro_response.value,
              reply |-> JSONResponse(kiro_response.value.data,
                                     kiro_response.value.status_code, EmptyDict)]

AnalyzeHandler ==
    /\ Calls < MaxCalls
    /\ agent.cls \in {"CloudRunKiroAgent", "GKEKiroAgent"}
    /\ \E request \in NativeRequests, analysis \in AnalysisOutcomes, response_time \in Samples :
         LET h == analyze_handler(agent, request, analysis, response_time)
         IN  /\ agent' = h.self
             /\ ret' = [op |-> "_analyze_handler", analysis |-> analysis, handled |-> h]
             /\ hist' = IF ~h.processed THEN hist
                        ELSE IF analysis.kind = "return"
                        THEN [hist EXCEPT !.ok = @ + 1]
                        ELSE [hist EXCEPT !.failed = @ + 1]
    /\ UNCHANGED <<host, pc, tmp, running>>

\* A Flask request as create_kiro_request_from_flask reads it: get_json()
\* is the decoded body or None.
None == [none |-> TRUE]

FlaskRequests == [json : Datas \cup {None},
                  headers : {("Content-Type" :> "application/json")},
                  method : {"POST", "GET"},
                  path : {"/analyze"},
                  args : {EmptyDict}]

\* Python truthiness of get_json()'s value
truthy(v) == v # None /\ DOMAIN v # {}

create_kiro_request_from_flask(request) ==
    KiroRequest([data |-> IF truthy(request.json) THEN request.json ELSE EmptyDict,
                 headers |-> request.headers,
                 method |-> request.method,
                 path |-> request.path,
                 query_params |-> request.args,
                 timestamp |-> Now])

\* The (body, status, headers) tuple Flask renders
create_flask_response_from_kiro(kiro_response) ==
    <<kiro_response.data, kiro_response.status_code, kiro_response.headers>>

CreateKiroRequestFromFlask ==
    /\ \E request \in FlaskRequests :
         ret' = [op |-> "create_kiro_request_from_flask", request |-> request,
                 call |-> create_kiro_request_from_flask(request)]
    /\ UNCHANGED <<agent, hist, host, pc, tmp, running>>

\* Rendering the Response that process_request has just returned
CreateFlaskResponseFromKiro ==
    /\ ret.op = "process_request"
    /\ ret.call.kind = "return"
    /\ ret' = [op |-> "create_flask_response_from_kiro",
               kiro_response |-> ret.call.value,
               reply |-> create_flask_response_from_kiro(ret.call.value)]
    /\ UNCHANGED <<agent, hist, host, pc, tmp, running>>

Next == \/ ProcessRequest
        \/ CreateErrorResponse
        \/ CreateSuccessResponse
        \/ GetMetrics
        \/ AnalyzeHandler
        \/ CreateKiroRequestFromFlask
        \/ CreateFlaskResponseFromKiro

Spec == Init /\ [][Next]_vars

----------------------------------------------------------------------------
(* KiroAgentFactory *)

create_agent_with_fallback(platform) ==
    IF platform = "gke" THEN Return(Construct("GKEKiroAgent"))
    ELSE Return(Construct("CloudRunKiroAgent"))

create_agent(platform) ==
    IF platform = "gke" THEN Return(Construct("GKEKiroAgent"))
    ELSE IF platform = "cloudrun" THEN Return(Construct("CloudRunKiroAgent"))
    ELSE Raise("ValueError", "Unknown platform: " \o platform)

get_available_platforms == <<"gke", "cloudrun">>

\* Python's "x in list"
In(x, list) == \E i \in 1..Len(list) : list[i] = x

validate_platform(platform) == In(platform, get_available_platforms)

PlatformNames == {"gke", "cloudrun", "cloud_functions", "GKE", "cloud-run",
                  "gke ", "", "unknown-name"}

CreateAgent ==
    /\ \E platform \in PlatformNames :
         ret' = [op |-> "create_agent", platform |-> platform,
                 call |-> create_agent(platform)]
    /\ UNCHANGED <<agent, hist, host, pc, tmp, running>>

GetAvailablePlatforms ==
    /\ ret' = [op |-> "get_available_platforms", call |-> Return(get_available_platforms)]
    /\ UNCHANGED <<agent, hist, host, pc, tmp, running>>

ValidatePlatform ==
    /\ \E platform \in PlatformNames :
         ret' = [op |-> "validate_platform", platform |-> platform,
                 call |-> Return(validate_platform(platform))]
    /\ UNCHANGED <<agent, hist, host, pc, tmp, running>>

----------------------------------------------------------------------------
(* KiroAgentInterface.validate_request *)

ValidMethods == <<"GET", "POST", "PUT", "DELETE">>

validate_request_any_data(self, request) ==
    IF "data" \notin DOMAIN request THEN Return(FALSE)
    ELSE IF ~In(request.method, ValidMethods) THEN Return(FALSE)
    ELSE Return(TRUE)

\* An object without a data attribute makes request.data raise
\* AttributeError inside the try block; the handler returns False.
validate_request(self, request) ==
    IF "data" \notin DOMAIN request THEN Return(FALSE)
    ELSE IF ~truthy(request.data) THEN Return(FALSE)
    ELSE IF ~In(request.method, ValidMethods) THEN Return(FALSE)
    ELSE Return(TRUE)

ValidateRequest ==
    /\ \E request \in Requests \cup {None} :
         ret' = [op |-> "validate_request", request |-> request,
                 call |-> validate_request(agent, request)]
    /\ UNCHANGED <<agent, hist, host, pc, tmp, running>>

----------------------------------------------------------------------------
(* validate_stateless_constraints *)

\* Text is a sequence of characters.
Chars == {" ", "x"}

Whitespace == {" "}

Texts == UNION {[1..n -> Chars] : n \in 0..MaxOut}

RECURSIVE lstrip(_)
lstrip(text) ==
    IF text # <<>> /\ Head(text) \in Whitespace THEN lstrip(Tail(text)) ELSE text

RECURSIVE rstrip(_)
rstrip(text) ==
    IF text # <<>> /\ text[Len(text)] \in Whitespace
    THEN rstrip(SubSeq(text, 1, Len(text) - 1))
    ELSE text

\* str.strip()
strip(text) == rstrip(lstrip(text))

ReturnCodes == {0, 1}

\* subprocess.run(["kubectl", ...]): a CompletedProcess, or an exception
\* when kubectl cannot be launched.
Completed == {Return([returncode |-> c, stdout |-> t]) : c \in ReturnCodes, t \in Texts}

RunOutcomes == Completed \cup {Raise("FileNotFoundError", "kubectl")}

\* pvc and statefulset are the outcomes of the two kubectl queries, the
\* second being run only when the first did not end the function.
validate_stateless_constraints(platform, pvc, statefulset) ==
    IF platform = "gke"
    THEN IF pvc.kind = "raise" THEN Return(FALSE)
         ELSE IF pvc.value.returncode = 0 /\ strip(pvc.value.stdout) # <<>> THEN Return(FALSE)
         ELSE IF statefulset.kind = "raise" THEN Return(FALSE)
         ELSE IF statefulset.value.returncode = 0 /\ strip(statefulset.value.stdout) # <<>>
              THEN Return(FALSE)
         ELSE Return(TRUE)
    ELSE IF platform = "cloudrun" THEN Return(TRUE)
    ELSE Return(FALSE)

ValidateStatelessConstraints ==
    /\ \E platform \in PlatformNames :
         IF platform = "gke"
         THEN \E pvc \in RunOutcomes, statefulset \in RunOutcomes :
                ret' = [op |-> "validate_stateless_constraints", platform |-> platform,
                        pvc |-> pvc, statefulset |-> statefulset,
                        call |-> validate_stateless_constraints(platform, pvc, statefulset)]
         ELSE ret' = [op |-> "validate_stateless_constraints", platform |-> platform,
                      pvc |-> None, statefulset |-> None,
                      call |-> validate_stateless_constraints(platform, None, None)]
    /\ UNCHANGED <<agent, hist, host, pc, tmp, running>>

----------------------------------------------------------------------------
(* The factory, the request validation and the constraint validator called *)
(* on their own, outside the request path                                  *)

NextPure == \/ CreateAgent
            \/ GetAvailablePlatforms
            \/ ValidatePlatform
            \/ ValidateRequest
            \/ ValidateStatelessConstraints

SpecPure == Init /\ [][NextPure]_vars

----------------------------------------------------------------------------
(* Concurrent process_request calls on one instance *)

\* process_request takes no lock. "self.request_count += 1" reads the
\* attribute and then stores the sum, and so does "self.error_count += 1";
\* list.append is a single step. Two hosts schedule the calls:
\*   "eventloop"  uvicorn runs the async handlers of CloudRunKiroAgent on
\*                one event loop; _analyze_handler calls process_request
\*                after its await and runs to its return without yielding;
\*   "threads"    the calls are made from the threads of the caller, and a
\*                thread switch may fall between any two steps.

Handlers == 1..NumHandlers

NoHandler == 0

Hosts(cls) == IF cls = "CloudFunctionsKiroAgent" THEN {"threads"} ELSE {"eventloop", "threads"}

InitConc ==
    /\ \E cls \in Classes : agent = Construct(cls) /\ host \in Hosts(cls)
    /\ ret = NoRet
    /\ hist = NoHist
    /\ pc = [h \in Handlers |-> "start"]
    /\ tmp = [h \in Handlers |-> 0]
    /\ running = NoHandler

\* Whether the host lets handler h take its next step
Scheduled(h) == host = "threads" \/ running = h

\* The call is entered: under the event loop, the handler is resumed after
\* "await request.json()" and keeps the loop until it returns.
Enter(h) ==
    /\ pc[h] = "start"
    /\ host = "threads" \/ running = NoHandler
    /\ pc' = [pc EXCEPT ![h] = "read_request_count"]
    /\ running' = IF host = "eventloop" THEN h ELSE running
    /\ UNCHANGED <<agent, ret, hist, host, tmp>>

ReadRequestCount(h) ==
    /\ pc[h] = "read_request_count"
    /\ Scheduled(h)
    /\ tmp' = [tmp EXCEPT ![h] = agent.request_count]
    /\ pc' = [pc EXCEPT ![h] = "write_request_count"]
    /\ UNCHANGED <<agent, ret, hist, host, running>>

WriteRequestCount(h) ==
    /\ pc[h] = "write_request_count"
    /\ Scheduled(h)
    /\ agent' = [agent EXCEPT !.request_count = tmp[h] + 1]
    /\ pc' = [pc EXCEPT ![h] = "analyze"]
    /\ UNCHANGED <<ret, hist, host, tmp, running>>

\* analyze_data and, when it returns, the append and the 200 Response
Analyze(h) ==
    /\ pc[h] = "analyze"
    /\ Scheduled(h)
    /\ \E analysis \in AnalysisOutcomes, response_time \in Samples :
         IF analyze_data(agent, EmptyDict, analysis).kind = "return"
         THEN /\ agent' = [agent EXCEPT !.response_times = Append(@, response_time)]
              /\ pc' = [pc EXCEPT ![h] = "done"]
              /\ hist' = [hist EXCEPT !.ok = @ + 1]
              /\ running' = NoHandler
         ELSE /\ pc' = [pc EXCEPT ![h] = "read_error_count"]
              /\ UNCHANGED <<agent, hist, running>>
    /\ UNCHANGED <<ret, host, tmp>>

ReadErrorCount(h) ==
    /\ pc[h] = "read_error_count"
    /\ Scheduled(h)
    /\ tmp' = [tmp EXCEPT ![h] = agent.error_count]
    /\ pc' = [pc EXCEPT ![h] = "write_error_count"]
    /\ UNCHANGED <<agent, ret, hist, host, running>>

\* The store of error_count and the 500 Response
WriteErrorCount(h) ==
    /\ pc[h] = "write_error_count"
    /\ Scheduled(h)
    /\ agent' = [agent EXCEPT !.error_count = tmp[h] + 1]
    /\ pc' = [pc EXCEPT ![h] = "done"]
    /\ hist' = [hist EXCEPT !.failed = @ + 1]
    /\ running' = NoHandler
    /\ UNCHANGED <<ret, host, tmp>>

NextConc ==
    \E h \in Handlers :
        \/ Enter(h)
        \/ ReadRequestCount(h)
        \/ WriteRequestCount(h)
        \/ Analyze(h)
        \/ ReadErrorCount(h)
        \/ WriteErrorCount(h)

SpecConc == InitConc /\ [][NextConc]_vars

AllReturned == \A h \in Handlers : pc[h] = "done"

----------------------------------------------------------------------------
(* Properties of the serving instance *)

\* C1: process_request never raises: every call returns a Response, with
\* status 200 when the analysis succeeded and with status 500 and the
\* failure message in the error payload when the analysis raised.
C1_NeverRaises ==
    ret.op = "process_request" =>
        /\ ret.call.kind = "return"
        /\ DOMAIN ret.call.value = KiroResponseFields
        /\ ret.analysis.kind = "return" => ret.call.value.status_code = 200
        /\ ret.analysis.kind = "raise" =>
               /\ ret.call.value.status_code = 500
               /\ ret.call.value.data.error = ret.analysis.msg

C1_Witness ==
    /\ ret.op = "process_request"
    /\ agent.cls = "GKEKiroAgent"
    /\ ret.analysis.kind = "raise"
    /\ ret.call.kind = "return"
    /\ ret.call.value.status_code = 500

\* C2: as long as only process_request has changed the counters,
\* error_count is the number of failed calls and request_count the number
\* of all calls, failed or not.
C2_Counting ==
    (hist.error_responses = 0 /\ hist.success_responses = 0) =>
        /\ agent.error_count = hist.failed
        /\ agent.request_count = hist.ok + hist.failed

C2_Witness ==
    /\ hist.error_responses = 0 /\ hist.success_responses = 0
    /\ agent.cls = "CloudFunctionsKiroAgent"
    /\ hist.ok = 1 /\ hist.failed = 2
    /\ agent.request_count = 3 /\ agent.error_count = 2

\* C4: every Response of process_request carries an X-Platform header
\* whose value is the platform name of the instance.
C4_PlatformHeader ==
    (ret.op = "process_request" /\ ret.call.kind = "return") =>
        /\ "X-Platform" \in DOMAIN ret.call.value.headers
        /\ ret.call.value.headers["X-Platform"] = agent.platform

\* C5: get_metrics on an instance that has processed no request returns a
\* Metrics record with avg_response_time 0.0.
C5_FreshMetrics ==
    (ret.op = "get_metrics" /\ agent.request_count = 0 /\ agent.response_times = <<>>) =>
        /\ ret.call.kind = "return"
        /\ ret.call.value.avg_response_time = Zero

\* C7: the native reply of the HTTP adapter has the status code, the
\* headers and the data of the Response that process_request returned.
C7_RoundTrip ==
    (ret.op = "_analyze_handler" /\ ret.handled.processed) =>
        /\ ret.handled.reply.status_code = ret.handled.kiro_response.status_code
        /\ ret.handled.reply.content = ret.handled.kiro_response.data
        /\ ret.handled.reply.headers = ret.handled.kiro_response.headers

\* C10 as stated: every process_request call, successful or failed, has
\* appended one sample.
C10_SamplePerCall == Len(agent.response_times) = hist.ok + hist.failed

IsPrefix(s, t) == Len(s) <= Len(t) /\ SubSeq(t, 1, Len(s)) = s

\* C10 amended: a call whose analysis succeeds appends exactly one sample
\* and a call whose analysis fails appends none, so the sequence holds one
\* sample per successful call; no sample is ever removed or changed.
C10_SamplePerSuccess ==
    /\ [](Len(agent.response_times) = hist.ok)
    /\ [][IsPrefix(agent.response_times, agent.response_times')]_vars

C10_Witness ==
    /\ hist.ok = 1 /\ hist.failed = 2
    /\ Len(agent.response_times) = 1

----------------------------------------------------------------------------
(* Properties of the factory and the validators *)

\* C6: create_agent fails with the unknown-platform error exactly for the
\* names outside get_available_platforms, and validate_platform is false
\* exactly for those names; a successful create_agent returns an agent of
\* the platform asked for.
C6_ClosedFactory ==
    /\ ret.op = "create_agent" =>
          /\ (ret.call.kind = "raise") <=> ~In(ret.platform, get_available_platforms)
          /\ (ret.call.kind = "raise") <=> ~validate_platform(ret.platform)
          /\ ret.call.kind = "raise" =>
                /\ ret.call.exc = "ValueError"
                /\ ret.call.msg = "Unknown platform: " \o ret.platform
          /\ ret.call.kind = "return" => ret.call.value.platform = ret.platform
    /\ ret.op = "validate_platform" =>
          (ret.call.value <=> create_agent(ret.platform).kind = "return")

C6_Witness ==
    /\ ret.op = "create_agent"
    /\ ret.platform = "cloud_functions"
    /\ ret.call.kind = "raise"

\* C8: validate_request never raises and returns true exactly for the
\* requests with non-empty data and a method among GET, POST, PUT, DELETE.
C8_ValidateRequest ==
    ret.op = "validate_request" =>
        /\ ret.call.kind = "return"
        /\ ret.request \in Requests =>
              (ret.call.value <=> /\ DOMAIN ret.request.data # {}
                                  /\ ret.request.method \in {"GET", "POST", "PUT", "DELETE"})

C8_Witness ==
    /\ ret.op = "validate_request"
    /\ ret.request \in Requests
    /\ DOMAIN ret.request.data = {}
    /\ ret.request.method = "POST"
    /\ ret.call = Return(FALSE)

Errored(run) == run.kind = "raise" \/ run.value.returncode # 0

Clean(run) == run.kind = "return" /\ run.value.returncode = 0 /\ strip(run.value.stdout) = <<>>

\* C9: for gke the validator never raises, returns false whenever one of
\* the two queries errored, and returns true only when both queries
\* succeeded and reported nothing.
C9_FailsClosed ==
    (ret.op = "validate_stateless_constraints" /\ ret.platform = "gke") =>
        /\ ret.call.kind = "return"
        /\ (Errored(ret.pvc) \/ Errored(ret.statefulset)) => ret.call.value = FALSE
        /\ ret.call.value = TRUE => (Clean(ret.pvc) /\ Clean(ret.statefulset))

----------------------------------------------------------------------------
(* Properties of concurrent calls *)

\* C3: once all the concurrent process_request calls have returned,
\* request_count is the number of calls: no increment is lost.
C3_NoLostUpdate == AllReturned => agent.request_count = NumHandlers

\* Under the event loop the calls are serialised and no update is lost.
EventLoopSerialised ==
    (host = "eventloop" /\ AllReturned) =>
        /\ agent.request_count = NumHandlers
        /\ agent.error_count = hist.failed

----------------------------------------------------------------------------
(* Properties of the envelope builders *)

ErrorEnvelopeFrame ==
    hist'.error_responses # hist.error_responses =>
        /\ agent'.error_count = agent.error_count + 1
        /\ agent'.request_count = agent.request_count
        /\ agent'.response_times = agent.response_times

SuccessEnvelopeFrame ==
    hist'.success_responses # hist.success_responses =>
        /\ agent'.request_count = agent.request_count + 1
        /\ agent'.error_count = agent.error_count
        /\ agent'.response_times = agent.response_times

\* C11: a create_error_response call adds exactly 1 to error_count and
\* leaves request_count and the samples unchanged; a
\* create_success_response call adds exactly 1 to request_count and leaves
\* error_count and the samples unchanged.
C11_EnvelopeFrame == [][ErrorEnvelopeFrame /\ SuccessEnvelopeFrame]_vars

C11_Witness ==
    /\ ret.op = "create_success_response"
    /\ hist.error_responses = 1 /\ hist.success_responses = 1 /\ hist.ok = 1
    /\ agent.request_count = 2 /\ agent.error_count = 1
    /\ Len(agent.response_times) = 1

\* C12: request_count >= error_count is broken exactly in the states where
\* the create_error_response calls outnumber the successful process_request
\* and create_success_response calls together; such a state is reached
\* from a fresh agent (C12_Witness).
C12_ErrorsCanExceedRequests ==
    (agent.error_count > agent.request_count)
        <=> (hist.error_responses > hist.ok + hist.success_responses)

C12_Witness ==
    /\ ret.op = "create_error_response"
    /\ hist = [NoHist EXCEPT !.error_responses = 1]
    /\ agent.error_count = 1
    /\ agent.request_count = 0

====
